---- MODULE Spec2Model ----
(***************************************************************************)
(* smartSerialize: an iterative, stack driven serializer of a JavaScript   *)
(* value graph with a depth limit, a size budget and an optional callback  *)
(* (batched) mode.  Two versions of the function are in the repository:    *)
(* src/index.js (synchronous only) and src/unnamed/part_001 (with the      *)
(* callback mode, escaping and the circular reference token).              *)
(*                                                                         *)
(* Text is a sequence of UTF-16 code units (numbers), so that lengths,     *)
(* escaping and parsing are computed and not assumed.                      *)
(***************************************************************************)
EXTENDS Integers, Sequences, FiniteSets, TLC

(***************************************************************************)
(* JavaScript values.  Containers, dates, errors and patterns live in the  *)
(* heap and are referred to by identity (Ref).                             *)
(***************************************************************************)
Null == [t |-> "null"]
Undefined == [t |-> "undefined"]
Bool(b) == [t |-> "bool", b |-> b]
Num(n) == [t |-> "num", n |-> n]
Str(s) == [t |-> "str", s |-> s]
Ref(id) == [t |-> "ref", id |-> id]
\* A function: its name and its source text (what String(f) gives).
Fn(name, src) == [t |-> "fn", name |-> name, src |-> src]
Sym(d) == [t |-> "sym", d |-> d]

\* ToBoolean, as used by `if (index)` and `if (key)`.
Truthy(v) ==
    CASE v.t = "null" -> FALSE
      [] v.t = "undefined" -> FALSE
      [] v.t = "bool" -> v.b
      [] v.t = "num" -> v.n # 0
      [] v.t = "str" -> Len(v.s) > 0
      [] OTHER -> TRUE

\* Infinity and the finite limits.
Infinity == [inf |-> TRUE, n |-> 0]
Fin(n) == [inf |-> FALSE, n |-> n]

\* a <= lim: the comparison that would let a container at depth maxDepth expand.
Less_AtMost(a, lim) == lim.inf \/ a <= lim.n

\* a < lim, as in depth < maxDepth
Less(a, lim) == lim.inf \/ a < lim.n

RECURSIVE Digits(_)
Digits(n) == IF n < 10 THEN <<48 + n>> ELSE Digits(n \div 10) \o <<48 + (n % 10)>>

\* String(n) of an integer n.
NumberToString(n) == IF n < 0 THEN <<45>> \o Digits(-n) ELSE Digits(n)

RECURSIVE HexDigits(_)
HexDigits(n) ==
    LET d == n % 16
        ch == IF d < 10 THEN 48 + d ELSE 87 + d
    IN IF n < 16 THEN <<ch>> ELSE HexDigits(n \div 16) \o <<ch>>

\* s.slice(-k)
SliceLast(s, k) == IF Len(s) <= k THEN s ELSE SubSeq(s, Len(s) - k + 1, Len(s))

CircularText == <<91, 99, 105, 114, 99, 117, 108, 97, 114, 32, 114, 101, 102, 101, 114, 101, 110, 99, 101, 93>>
FunctionPrefix == <<91, 102, 117, 110, 99, 116, 105, 111, 110, 32>>
AnonymousText == <<40, 97, 110, 111, 110, 121, 109, 111, 117, 115, 41>>
NullText == <<110, 117, 108, 108>>
TrueText == <<116, 114, 117, 101>>
FalseText == <<102, 97, 108, 115, 101>>
UndefinedText == <<117, 110, 100, 101, 102, 105, 110, 101, 100>>
ObjectObjectText == <<91, 111, 98, 106, 101, 99, 116, 32, 79, 98, 106, 101, 99, 116, 93>>

(***************************************************************************)
(* The size counter.  `size += value.toString()` (part_001 line 26) turns  *)
(* the counter into a string; from then on += concatenates and the         *)
(* comparison with maxSize is a comparison of NaN (the platform string of  *)
(* an error or a pattern is not numeric text), which is false.             *)
(***************************************************************************)
SizeNum(n) == [str |-> FALSE, n |-> n, s |-> <<>>]
SizeStr(s) == [str |-> TRUE, n |-> 0, s |-> s]
SizeText(sz) == IF sz.str THEN sz.s ELSE NumberToString(sz.n)
SizePlusNumber(sz, k) == IF sz.str THEN SizeStr(sz.s \o NumberToString(k)) ELSE SizeNum(sz.n + k)
SizePlusString(sz, s) == SizeStr(SizeText(sz) \o s)
\* size > maxSize
SizeExceeds(sz, lim) == ~sz.str /\ ~lim.inf /\ sz.n > lim.n

(***************************************************************************)
(* The state of one call: the closure variables of smartSerialize.         *)
(*   stack   frames [key, value, index, depth], the top is the last        *)
(*   seen    identities in the WeakSet                                     *)
(*   frags   the arguments and text of every render call, in output order  *)
(* An environment c holds what the call does not change: the heap of the   *)
(* input and the two limits.                                               *)
(***************************************************************************)
\* F(v) with v evaluated once: a state that later statements read many times
\* is computed once, as the code computes it.
Let(v, F(_)) == CHOOSE r \in {F(x) : x \in {v}} : TRUE

Frame(key, value, index, depth) == [key |-> key, value |-> value, index |-> index, depth |-> depth]

InitialState(object) ==
    [stack |-> <<Frame(Null, object, Undefined, 0)>>,
     seen |-> {},
     size |-> SizeNum(0),
     sizeLimitReached |-> FALSE,
     output |-> <<>>,
     frags |-> <<>>,
     threw |-> FALSE]

stackPush(st, f) == [st EXCEPT !.stack = Append(@, f)]

\* A guard that never finds the value.
seenHas_Never(st, value) == FALSE

\* seen.has(value): only objects are ever in the set.
seenHas(st, value) == value.t = "ref" /\ value.id \in st.seen

addSize(c, st, strLength) ==
    LET sz == SizePlusNumber(st.size, strLength)
    IN [st EXCEPT !.size = sz,
                  !.sizeLimitReached = @ \/ SizeExceeds(sz, c.maxSize)]

measureSize(c, st, value) ==
    LET o == c.heap[value.id]
        sz == CASE value.t = "null" -> SizePlusNumber(st.size, 4)
                [] value.t = "bool" /\ value.b -> SizePlusNumber(st.size, 4)
                [] value.t = "bool" /\ ~value.b -> SizePlusNumber(st.size, 5)
                [] value.t = "str" -> SizePlusNumber(st.size, Len(value.s) + 2)
                [] value.t = "num" -> SizePlusNumber(st.size, Len(NumberToString(value.n)))
                [] value.t = "ref" /\ o.k = "date" -> SizePlusNumber(st.size, 26)
                [] value.t = "ref" /\ o.k \in {"error", "regexp"} -> SizePlusString(st.size, o.text)
                [] value.t = "fn" -> SizePlusNumber(st.size, 13 + Len(value.name))
                [] OTHER -> st.size
    IN [st EXCEPT !.size = sz,
                  !.sizeLimitReached = @ \/ SizeExceeds(sz, c.maxSize)]

LEFT_BRACKET == Sym("[")
RIGHT_BRACKET == Sym("]")
BRACKETS == Sym("[]")
LEFT_BRACE == Sym("{")
RIGHT_BRACE == Sym("}")
BRACES == Sym("{}")
enclosures == {LEFT_BRACKET, RIGHT_BRACKET, BRACKETS, LEFT_BRACE, RIGHT_BRACE, BRACES}

getEnclosure(value) ==
    CASE value = LEFT_BRACKET -> <<91>>
      [] value = RIGHT_BRACKET -> <<93>>
      [] value = BRACKETS -> <<91, 93>>
      [] value = LEFT_BRACE -> <<123>>
      [] value = RIGHT_BRACE -> <<125>>
      [] value = BRACES -> <<123, 125>>

\* ESCAPE_REGEXP: control characters 0-31, the quote, the backslash.
EscapeMatches(a) == a \in 0..31 \/ a = 34 \/ a = 92

\* A replacer function without the short escape of the form feed.
escapeChar_WithoutFormFeed(a) ==
    CASE a = 8 -> <<92, 98>>
      [] a = 9 -> <<92, 116>>
      [] a = 10 -> <<92, 110>>
      [] a = 13 -> <<92, 114>>
      [] a = 34 -> <<92, 34>>
      [] a = 92 -> <<92, 92>>
      [] OTHER -> <<92, 117>> \o SliceLast(<<48, 48, 48, 48>> \o HexDigits(a), 4)

\* The replacer function of escape.
escapeChar(a) ==
    CASE a = 8 -> <<92, 98>>
      [] a = 9 -> <<92, 116>>
      [] a = 10 -> <<92, 110>>
      [] a = 12 -> <<92, 102>>
      [] a = 13 -> <<92, 114>>
      [] a = 34 -> <<92, 34>>
      [] a = 92 -> <<92, 92>>
      [] OTHER -> <<92, 117>> \o SliceLast(<<48, 48, 48, 48>> \o HexDigits(a), 4)

RECURSIVE replaceAll(_, _)
replaceAll(value, i) ==
    IF i > Len(value) THEN <<>>
    ELSE (IF EscapeMatches(value[i]) THEN escapeChar(value[i]) ELSE <<value[i]>>)
         \o replaceAll(value, i + 1)

escape(value) ==
    IF \E i \in 1..Len(value) : EscapeMatches(value[i])
    THEN replaceAll(value, 1)
    ELSE value

\* Array.prototype.join(',') with its cycle detection, and String(value) of
\* the values that reach `str += value`.
RECURSIVE ToStringJS(_, _, _)
RECURSIVE JoinElems(_, _, _, _)
JoinElems(c, elems, i, visiting) ==
    IF i > Len(elems) THEN <<>>
    ELSE (IF i > 1 THEN <<44>> ELSE <<>>)
         \o (IF elems[i].t \in {"null", "undefined"} THEN <<>>
             ELSE ToStringJS(c, elems[i], visiting))
         \o JoinElems(c, elems, i + 1, visiting)

ToStringJS(c, v, visiting) ==
    CASE v.t = "null" -> NullText
      [] v.t = "undefined" -> UndefinedText
      [] v.t = "bool" -> IF v.b THEN TrueText ELSE FalseText
      [] v.t = "num" -> NumberToString(v.n)
      [] v.t = "str" -> v.s
      [] v.t = "fn" -> v.src
      [] v.t = "ref" ->
            LET o == c.heap[v.id]
            IN CASE o.k = "array" ->
                       IF v.id \in visiting THEN <<>>
                       ELSE JoinElems(c, o.elems, 1, visiting \cup {v.id})
                 [] o.k = "object" -> ObjectObjectText
                 [] OTHER -> o.text

KeyPrefix(index, key) ==
    (IF Truthy(index) THEN <<44>> ELSE <<>>)
    \o (IF Truthy(key) THEN <<34>> \o key.s \o <<34, 58>> ELSE <<>>)

\* A render that appends its fragment to the output.
Emit_Append(st, key, value, index, str) ==
    [st EXCEPT !.output = @ \o str,
               !.frags = @ \o <<[key |-> key, value |-> value, index |-> index, text |-> str]>>]

Emit(st, key, value, index, str) ==
    [st EXCEPT !.output = str \o @,
               !.frags = <<[key |-> key, value |-> value, index |-> index, text |-> str]>> \o @]

render(c, st, key, value, index) ==
    LET tok == IF value \in enclosures THEN getEnclosure(value)
               ELSE IF value.t = "str" THEN <<34>> \o escape(value.s) \o <<34>>
               ELSE ToStringJS(c, value, {})
    IN Emit(st, key, value, index, KeyPrefix(index, key) \o tok)

(***************************************************************************)
(* iterateStack of src/unnamed/part_001: pop one frame and process it.     *)
(***************************************************************************)
\* for (let i = 0; i < value.length; i++) { measureSize; push }
RECURSIVE pushElements(_, _, _, _, _)
pushElements(c, st, elems, i, depth) ==
    IF i > Len(elems) THEN st
    ELSE Let(measureSize(c, st, elems[i]), LAMBDA s1 :
             pushElements(c,
                 IF ~s1.sizeLimitReached
                 THEN stackPush(s1, Frame(Null, elems[i], Num(i - 1), depth + 1))
                 ELSE s1,
                 elems, i + 1, depth))

\* keys.forEach((k, i) => { addSize; measureSize; push })
RECURSIVE pushEntries(_, _, _, _, _)
pushEntries(c, st, o, i, depth) ==
    IF i > Len(o.keys) THEN st
    ELSE Let(addSize(c, st, Len(o.keys[i]) + 3), LAMBDA s1 :
         Let(IF ~s1.sizeLimitReached THEN measureSize(c, s1, o.vals[i]) ELSE s1, LAMBDA s2 :
             pushEntries(c,
                 IF ~s2.sizeLimitReached
                 THEN stackPush(s2, Frame(Str(o.keys[i]), o.vals[i], Num(i - 1), depth + 1))
                 ELSE s2,
                 o, i + 1, depth)))

\* The expansion of an array with the close marker treated like a child: pushed
\* only while the budget holds.
expandArray_CloseWithinBudget(c, st, f, o) ==
    Let(addSize(c, st, 2), LAMBDA s1 :
        IF ~s1.sizeLimitReached /\ Less(f.depth, c.maxDepth)
        THEN Let(pushElements(c, stackPush(s1, Frame(f.key, LEFT_BRACKET, f.index, f.depth)),
                              o.elems, 1, f.depth),
                 LAMBDA s2 : IF s2.sizeLimitReached THEN s2
                             ELSE stackPush(s2, Frame(Undefined, RIGHT_BRACKET, Undefined, f.depth)))
        ELSE render(c, s1, f.key, BRACKETS, f.index))

expandArray(c, st, f, o) ==
    Let(addSize(c, st, 2), LAMBDA s1 :
        IF ~s1.sizeLimitReached /\ Less(f.depth, c.maxDepth)
        THEN stackPush(
                 pushElements(c, stackPush(s1, Frame(f.key, LEFT_BRACKET, f.index, f.depth)),
                              o.elems, 1, f.depth),
                 Frame(Undefined, RIGHT_BRACKET, Undefined, f.depth))
        ELSE render(c, s1, f.key, BRACKETS, f.index))

\* The handling of a plain object with an empty one treated like an empty
\* array: charged, and rendered as {}.
expandObject_EmptyRendersBraces(c, st, f, o) ==
    Let(addSize(c, st, 2), LAMBDA s1 :
        IF ~s1.sizeLimitReached /\ Less(f.depth, c.maxDepth) /\ Len(o.keys) > 0
        THEN stackPush(
                 pushEntries(c, stackPush(s1, Frame(f.key, LEFT_BRACE, f.index, f.depth)),
                             o, 1, f.depth),
                 Frame(Undefined, RIGHT_BRACE, Undefined, f.depth))
        ELSE render(c, s1, f.key, BRACES, f.index))

expandObject(c, st, f, o) ==
    IF Len(o.keys) = 0 THEN st
    ELSE Let(addSize(c, st, 2), LAMBDA s1 :
             IF ~s1.sizeLimitReached /\ Less(f.depth, c.maxDepth)
             THEN stackPush(
                      pushEntries(c, stackPush(s1, Frame(f.key, LEFT_BRACE, f.index, f.depth)),
                                  o, 1, f.depth),
                      Frame(Undefined, RIGHT_BRACE, Undefined, f.depth))
             ELSE render(c, s1, f.key, BRACES, f.index))

circularReference(c, st, f) ==
    Let(addSize(c, st, 20), LAMBDA s1 :
        IF ~s1.sizeLimitReached THEN render(c, s1, f.key, Str(CircularText), f.index) ELSE s1)

functionText(value) ==
    FunctionPrefix \o (IF Len(value.name) > 0 THEN value.name ELSE AnonymousText) \o <<93>>

iterateStack(c, st) ==
    LET f == st.stack[Len(st.stack)]
        s0 == [st EXCEPT !.stack = SubSeq(@, 1, Len(@) - 1)]
        o == c.heap[f.value.id]
    IN IF seenHas(s0, f.value) THEN circularReference(c, s0, f)
       ELSE IF f.value.t = "fn" THEN render(c, s0, f.key, Str(functionText(f.value)), f.index)
       ELSE IF f.value.t = "ref" THEN
            LET s1 == [s0 EXCEPT !.seen = @ \cup {f.value.id}]
            IN CASE o.k = "array" -> expandArray(c, s1, f, o)
                 [] o.k = "date" -> render(c, s1, f.key, Str(o.iso), f.index)
                 [] o.k \in {"error", "regexp"} -> render(c, s1, f.key, Str(o.text), f.index)
                 [] OTHER -> expandObject(c, s1, f, o)
       ELSE Let(render(c, s0, f.key, f.value, f.index), LAMBDA s1 :
                IF Truthy(f.index) THEN addSize(c, s1, 1) ELSE s1)

(***************************************************************************)
(* The loop body of src/index.js.  Markers are plain strings there, render *)
(* does not escape, and a value of type "object" that is not in `seen` is  *)
(* added to it: for null, WeakSet.prototype.add throws a TypeError.        *)
(***************************************************************************)
isBraceOrBracket(value) ==
    value.t = "str" /\ value.s \in {<<91>>, <<93>>, <<91, 93>>, <<123>>, <<125>>, <<123, 125>>}

index_render(c, st, key, value, index) ==
    LET tok == IF isBraceOrBracket(value) THEN value.s
               ELSE IF value.t = "str" THEN <<34>> \o value.s \o <<34>>
               ELSE ToStringJS(c, value, {})
    IN Emit(st, key, value, index, KeyPrefix(index, key) \o tok)

index_measureSize(c, st, value) ==
    LET o == c.heap[value.id]
        sz == CASE value.t = "null" -> SizePlusNumber(st.size, 4)
                [] value.t = "bool" /\ value.b -> SizePlusNumber(st.size, 4)
                [] value.t = "bool" /\ ~value.b -> SizePlusNumber(st.size, 5)
                [] value.t = "str" -> SizePlusNumber(st.size, Len(value.s) + 2)
                [] value.t = "num" -> SizePlusNumber(st.size, Len(NumberToString(value.n)))
                [] value.t = "ref" /\ o.k = "date" -> SizePlusNumber(st.size, 26)
                [] OTHER -> st.size
    IN [st EXCEPT !.size = sz,
                  !.sizeLimitReached = @ \/ SizeExceeds(sz, c.maxSize)]

RECURSIVE index_pushElements(_, _, _, _, _)
index_pushElements(c, st, elems, i, depth) ==
    IF i > Len(elems) THEN st
    ELSE Let(index_measureSize(c, st, elems[i]), LAMBDA s1 :
             index_pushElements(c,
                 IF ~s1.sizeLimitReached
                 THEN stackPush(s1, Frame(Null, elems[i], Num(i - 1), depth + 1))
                 ELSE s1,
                 elems, i + 1, depth))

RECURSIVE index_pushEntries(_, _, _, _, _)
index_pushEntries(c, st, o, i, depth) ==
    IF i > Len(o.keys) THEN st
    ELSE Let(addSize(c, st, Len(o.keys[i]) + 3), LAMBDA s1 :
         Let(IF ~s1.sizeLimitReached THEN index_measureSize(c, s1, o.vals[i]) ELSE s1, LAMBDA s2 :
             index_pushEntries(c,
                 IF ~s2.sizeLimitReached
                 THEN stackPush(s2, Frame(Str(o.keys[i]), o.vals[i], Num(i - 1), depth + 1))
                 ELSE s2,
                 o, i + 1, depth)))

index_expandArray(c, st, f, o) ==
    Let(addSize(c, st, 2), LAMBDA s1 :
        IF ~s1.sizeLimitReached /\ Less(f.depth, c.maxDepth)
        THEN stackPush(
                 index_pushElements(c, stackPush(s1, Frame(f.key, Str(<<91>>), f.index, f.depth)),
                                    o.elems, 1, f.depth),
                 Frame(Undefined, Str(<<93>>), Undefined, f.depth))
        ELSE index_render(c, s1, f.key, Str(<<91, 93>>), f.index))

index_expandObject(c, st, f, o) ==
    IF Len(o.keys) = 0 THEN st
    ELSE Let(addSize(c, st, 2), LAMBDA s1 :
             IF ~s1.sizeLimitReached /\ Less(f.depth, c.maxDepth)
             THEN stackPush(
                      index_pushEntries(c, stackPush(s1, Frame(f.key, Str(<<123>>), f.index, f.depth)),
                                        o, 1, f.depth),
                      Frame(Undefined, Str(<<125>>), Undefined, f.depth))
             ELSE index_render(c, s1, f.key, Str(<<123, 125>>), f.index))

\* typeof value === 'object'
TypeofObject(value) == value.t \in {"null", "ref"}

index_loopBody(c, st) ==
    LET f == st.stack[Len(st.stack)]
        s0 == [st EXCEPT !.stack = SubSeq(@, 1, Len(@) - 1)]
        o == c.heap[f.value.id]
    IN IF TypeofObject(f.value) /\ ~seenHas(s0, f.value) THEN
            IF f.value.t = "null" THEN [s0 EXCEPT !.threw = TRUE]
            ELSE LET s1 == [s0 EXCEPT !.seen = @ \cup {f.value.id}]
                 IN CASE o.k = "array" -> index_expandArray(c, s1, f, o)
                      [] o.k = "date" -> index_render(c, s1, f.key, Str(o.iso), f.index)
                      [] o.k = "object" -> index_expandObject(c, s1, f, o)
                      [] OTHER -> s1
       ELSE Let(index_render(c, s0, f.key, f.value, f.index), LAMBDA s1 :
                IF Truthy(f.index) THEN addSize(c, s1, 1) ELSE s1)

(***************************************************************************)
(* The synchronous call as a function: the loops of part_001 lines 173-175 *)
(* and of index.js lines 49-89 run to the end from the initial stack.      *)
(***************************************************************************)
RECURSIVE runStack(_, _)
runStack(c, st) == IF st.stack = <<>> THEN st ELSE runStack(c, iterateStack(c, st))

RECURSIVE index_runStack(_, _)
index_runStack(c, st) ==
    IF st.stack = <<>> \/ st.threw THEN st ELSE index_runStack(c, index_loopBody(c, st))

(***************************************************************************)
(* The inputs: value graphs of the tests and of the shapes the             *)
(* specification speaks of (shared and cyclic containers, empty            *)
(* containers, keys and strings that need escaping, dates, errors,         *)
(* patterns, functions).  The JavaScript literal is given above each.      *)
(***************************************************************************)
\* 'a'
In_string ==
    [root |-> Str(<<97>>),
     heap |-> <<>>]

\* null
In_null ==
    [root |-> Null,
     heap |-> <<>>]

\* 42
In_number ==
    [root |-> Num(42),
     heap |-> <<>>]

\* { foo: 1, bar: 'baz' }
In_simpleObject ==
    [root |-> Ref(1),
     heap |-> <<[k |-> "object", keys |-> <<<<102, 111, 111>>, <<98, 97, 114>>>>, vals |-> <<Num(1), Str(<<98, 97, 122>>)>>]>>]

\* { foo: { bar: { baz: 'qux' } } }
In_nestedObject ==
    [root |-> Ref(1),
     heap |-> <<[k |-> "object", keys |-> <<<<102, 111, 111>>>>, vals |-> <<Ref(2)>>],
               [k |-> "object", keys |-> <<<<98, 97, 114>>>>, vals |-> <<Ref(3)>>],
               [k |-> "object", keys |-> <<<<98, 97, 122>>>>, vals |-> <<Str(<<113, 117, 120>>)>>]>>]

\* { foo: [1, 2], bar: ['a'] }
In_arrays ==
    [root |-> Ref(1),
     heap |-> <<[k |-> "object", keys |-> <<<<102, 111, 111>>, <<98, 97, 114>>>>, vals |-> <<Ref(2), Ref(3)>>],
               [k |-> "array", elems |-> <<Num(1), Num(2)>>],
               [k |-> "array", elems |-> <<Str(<<97>>)>>]>>]

\* { foo: 'aaaaaaaaaa' }
In_longString ==
    [root |-> Ref(1),
     heap |-> <<[k |-> "object", keys |-> <<<<102, 111, 111>>>>, vals |-> <<Str(<<97, 97, 97, 97, 97, 97, 97, 97, 97, 97>>)>>]>>]

\* obj = { foo: {} }; obj.foo.bar = obj
In_circular ==
    [root |-> Ref(1),
     heap |-> <<[k |-> "object", keys |-> <<<<102, 111, 111>>>>, vals |-> <<Ref(2)>>],
               [k |-> "object", keys |-> <<<<98, 97, 114>>>>, vals |-> <<Ref(1)>>]>>]

\* s = [1]; [s, s]
In_sharedInArray ==
    [root |-> Ref(1),
     heap |-> <<[k |-> "array", elems |-> <<Ref(2), Ref(2)>>],
               [k |-> "array", elems |-> <<Num(1)>>]>>]

\* s = { a: 1 }; { x: s, y: s }
In_sharedInObject ==
    [root |-> Ref(1),
     heap |-> <<[k |-> "object", keys |-> <<<<120>>, <<121>>>>, vals |-> <<Ref(2), Ref(2)>>],
               [k |-> "object", keys |-> <<<<97>>>>, vals |-> <<Num(1)>>]>>]

\* s = [1]; [[s], s]
In_sharedDeeper ==
    [root |-> Ref(1),
     heap |-> <<[k |-> "array", elems |-> <<Ref(2), Ref(3)>>],
               [k |-> "array", elems |-> <<Ref(3)>>],
               [k |-> "array", elems |-> <<Num(1)>>]>>]

\* s = [1]; [s, [s]]
In_sharedShallowFirst ==
    [root |-> Ref(1),
     heap |-> <<[k |-> "array", elems |-> <<Ref(2), Ref(3)>>],
               [k |-> "array", elems |-> <<Num(1)>>],
               [k |-> "array", elems |-> <<Ref(2)>>]>>]

\* []
In_emptyArray ==
    [root |-> Ref(1),
     heap |-> <<[k |-> "array", elems |-> <<>>]>>]

\* {}
In_emptyObject ==
    [root |-> Ref(1),
     heap |-> <<[k |-> "object", keys |-> <<>>, vals |-> <<>>]>>]

\* [{}]
In_arrayOfEmptyObject ==
    [root |-> Ref(1),
     heap |-> <<[k |-> "array", elems |-> <<Ref(2)>>],
               [k |-> "object", keys |-> <<>>, vals |-> <<>>]>>]

\* { a: {} }
In_emptyObjectValue ==
    [root |-> Ref(1),
     heap |-> <<[k |-> "object", keys |-> <<<<97>>>>, vals |-> <<Ref(2)>>],
               [k |-> "object", keys |-> <<>>, vals |-> <<>>]>>]

\* [{}, 1]
In_emptyObjectThenNumber ==
    [root |-> Ref(1),
     heap |-> <<[k |-> "array", elems |-> <<Ref(2), Num(1)>>],
               [k |-> "object", keys |-> <<>>, vals |-> <<>>]>>]

\* [1, {}]
In_numberThenEmptyObject ==
    [root |-> Ref(1),
     heap |-> <<[k |-> "array", elems |-> <<Num(1), Ref(2)>>],
               [k |-> "object", keys |-> <<>>, vals |-> <<>>]>>]

\* { a: [] }
In_emptyArrayValue ==
    [root |-> Ref(1),
     heap |-> <<[k |-> "object", keys |-> <<<<97>>>>, vals |-> <<Ref(2)>>],
               [k |-> "array", elems |-> <<>>]>>]

\* { '': 1 }
In_emptyKey ==
    [root |-> Ref(1),
     heap |-> <<[k |-> "object", keys |-> <<<<>>>>, vals |-> <<Num(1)>>]>>]

\* { '"': 1 }
In_quoteKey ==
    [root |-> Ref(1),
     heap |-> <<[k |-> "object", keys |-> <<<<34>>>>, vals |-> <<Num(1)>>]>>]

\* [[], []]
In_twoEmptyArrays ==
    [root |-> Ref(1),
     heap |-> <<[k |-> "array", elems |-> <<Ref(2), Ref(3)>>],
               [k |-> "array", elems |-> <<>>],
               [k |-> "array", elems |-> <<>>]>>]

\* { foo: null }
In_nullValue ==
    [root |-> Ref(1),
     heap |-> <<[k |-> "object", keys |-> <<<<102, 111, 111>>>>, vals |-> <<Null>>]>>]

\* [null, true, false]
In_literals ==
    [root |-> Ref(1),
     heap |-> <<[k |-> "array", elems |-> <<Null, Bool(TRUE), Bool(FALSE)>>]>>]

\* a = []; a.push(a)
In_selfArray ==
    [root |-> Ref(1),
     heap |-> <<[k |-> "array", elems |-> <<Ref(1)>>]>>]

\* a = [1]; a.push(a)
In_selfArrayAfterNumber ==
    [root |-> Ref(1),
     heap |-> <<[k |-> "array", elems |-> <<Num(1), Ref(1)>>]>>]

\* { t: '\t', q: '"' }
In_escapes ==
    [root |-> Ref(1),
     heap |-> <<[k |-> "object", keys |-> <<<<116>>, <<113>>>>, vals |-> <<Str(<<9>>), Str(<<34>>)>>]>>]

\* ['\\', '\u0001', "'", '\b']
In_moreEscapes ==
    [root |-> Ref(1),
     heap |-> <<[k |-> "array", elems |-> <<Str(<<92>>), Str(<<1>>), Str(<<39>>), Str(<<8>>)>>]>>]

\* ['[', '{}']
In_bracketString ==
    [root |-> Ref(1),
     heap |-> <<[k |-> "array", elems |-> <<Str(<<91>>), Str(<<123, 125>>)>>]>>]

\* [[[[1]]]]
In_deepArray ==
    [root |-> Ref(1),
     heap |-> <<[k |-> "array", elems |-> <<Ref(2)>>],
               [k |-> "array", elems |-> <<Ref(3)>>],
               [k |-> "array", elems |-> <<Ref(4)>>],
               [k |-> "array", elems |-> <<Num(1)>>]>>]

\* [1, [2, [3]], 4]
In_mixed ==
    [root |-> Ref(1),
     heap |-> <<[k |-> "array", elems |-> <<Num(1), Ref(2), Num(4)>>],
               [k |-> "array", elems |-> <<Num(2), Ref(3)>>],
               [k |-> "array", elems |-> <<Num(3)>>]>>]

\* [10, -5, 0]
In_numbers ==
    [root |-> Ref(1),
     heap |-> <<[k |-> "array", elems |-> <<Num(10), Num(-5), Num(0)>>]>>]

\* { a: { b: 1 }, c: 2 }
In_siblingsAfterObject ==
    [root |-> Ref(1),
     heap |-> <<[k |-> "object", keys |-> <<<<97>>, <<99>>>>, vals |-> <<Ref(2), Num(2)>>],
               [k |-> "object", keys |-> <<<<98>>>>, vals |-> <<Num(1)>>]>>]

\* { date: new Date('2022-01-01T00:00:00.000Z') }
In_date ==
    [root |-> Ref(1),
     heap |-> <<[k |-> "object", keys |-> <<<<100, 97, 116, 101>>>>, vals |-> <<Ref(2)>>],
               [k |-> "date", iso |-> <<50, 48, 50, 50, 45, 48, 49, 45, 48, 49, 84, 48, 48, 58, 48, 48, 58, 48, 48, 46, 48, 48, 48, 90>>, text |-> <<83, 97, 116, 32, 74, 97, 110, 32, 48, 49, 32, 50, 48, 50, 50>>]>>]

\* d = new Date(...); [d, d]
In_sharedDate ==
    [root |-> Ref(1),
     heap |-> <<[k |-> "array", elems |-> <<Ref(2), Ref(2)>>],
               [k |-> "date", iso |-> <<50, 48, 50, 50, 45, 48, 49, 45, 48, 49, 84, 48, 48, 58, 48, 48, 58, 48, 48, 46, 48, 48, 48, 90>>, text |-> <<83, 97, 116, 32, 74, 97, 110, 32, 48, 49, 32, 50, 48, 50, 50>>]>>]

\* { foo: new Error('e') }
In_error ==
    [root |-> Ref(1),
     heap |-> <<[k |-> "object", keys |-> <<<<102, 111, 111>>>>, vals |-> <<Ref(2)>>],
               [k |-> "error", text |-> <<69, 114, 114, 111, 114, 58, 32, 101>>]>>]

\* [/h/i, 'aaaa', [1]]
In_regexpThenValues ==
    [root |-> Ref(1),
     heap |-> <<[k |-> "array", elems |-> <<Ref(2), Str(<<97, 97, 97, 97>>), Ref(3)>>],
               [k |-> "regexp", text |-> <<47, 104, 47, 105>>],
               [k |-> "array", elems |-> <<Num(1)>>]>>]

\* r = /h/i; [r, r]
In_sharedRegExp ==
    [root |-> Ref(1),
     heap |-> <<[k |-> "array", elems |-> <<Ref(2), Ref(2)>>],
               [k |-> "regexp", text |-> <<47, 104, 47, 105>>]>>]

\* [function () {}, function foo () {}]
In_functions ==
    [root |-> Ref(1),
     heap |-> <<[k |-> "array", elems |-> <<Fn(<<>>, <<102, 117, 110, 99, 116, 105, 111, 110, 32, 40, 41, 32, 123, 125>>), Fn(<<102, 111, 111>>, <<102, 117, 110, 99, 116, 105, 111, 110, 32, 102, 111, 111, 32, 40, 41, 32, 123, 125>>)>>]>>]

Inputs ==
    {In_string,
     In_null,
     In_number,
     In_simpleObject,
     In_nestedObject,
     In_arrays,
     In_longString,
     In_circular,
     In_sharedInArray,
     In_sharedInObject,
     In_sharedDeeper,
     In_sharedShallowFirst,
     In_emptyArray,
     In_emptyObject,
     In_arrayOfEmptyObject,
     In_emptyObjectValue,
     In_emptyObjectThenNumber,
     In_numberThenEmptyObject,
     In_emptyArrayValue,
     In_emptyKey,
     In_quoteKey,
     In_twoEmptyArrays,
     In_nullValue,
     In_literals,
     In_selfArray,
     In_selfArrayAfterNumber,
     In_escapes,
     In_moreEscapes,
     In_bracketString,
     In_deepArray,
     In_mixed,
     In_numbers,
     In_siblingsAfterObject,
     In_date,
     In_sharedDate,
     In_error,
     In_regexpThenValues,
     In_sharedRegExp,
     In_functions}


\* Bounds of the limits and of the slice size that are tried.
MaxDepthBound == 3
MaxSizeBound == 30
MaxBatch == 3

\* part_001 line 13.
BATCH_SIZE == 10000

DepthLimits == {Fin(n) : n \in 0..MaxDepthBound} \cup {Infinity}
SizeLimits == {Fin(n) : n \in 0..MaxSizeBound} \cup {Infinity}
\* The slice size is BATCH_SIZE in the code; smaller sizes make the slices
\* of small inputs end before the stack is empty.
BatchSizes == (1..MaxBatch) \cup {BATCH_SIZE}

(***************************************************************************)
(* One call of smartSerialize.                                             *)
(*   impl      "index.js" or "part_001": the version called                *)
(*   mode      "sync" (no callback) or "callback"                          *)
(*   pc        "loop" (the synchronous while loop), "slice" (inside        *)
(*             callbackStack), "return" (callbackStack has returned to     *)
(*             smartSerialize, which has not returned yet), "idle" (no     *)
(*             code of the call is running), "done", "threw"               *)
(*   i         the slice's counter                                         *)
(*   timers    pending setTimeout(callbackStack)                           *)
(*   inCall    smartSerialize has not returned to its caller yet           *)
(*   delivered the arguments of the calls of the callback, in order        *)
(*   returned  <<v>> once smartSerialize has returned v                    *)
(*   peer      a second call in flight on the same thread (its arguments,  *)
(*             its own closure `st`, its own pc, i, timers, inCall,        *)
(*             delivered, returned), or NoPeer                             *)
(***************************************************************************)
VARIABLES impl, mode, heap, object, maxDepth, maxSize, batchSize,
          stack, seen, size, sizeLimitReached, output, frags,
          pc, i, timers, inCall, delivered, returned,
          peer

params == <<impl, mode, heap, object, maxDepth, maxSize, batchSize>>
closure == <<stack, seen, size, sizeLimitReached, output, frags>>
vars == <<params, closure, pc, i, timers, inCall, delivered, returned, peer>>

\* No second call.
NoPeer == [pc |-> "none"]

Env == [heap |-> heap, maxDepth |-> maxDepth, maxSize |-> maxSize]

Cur ==
    [stack |-> stack, seen |-> seen, size |-> size, sizeLimitReached |-> sizeLimitReached,
     output |-> output, frags |-> frags, threw |-> FALSE]

SetClosure(st) ==
    /\ stack' = st.stack
    /\ seen' = st.seen
    /\ size' = st.size
    /\ sizeLimitReached' = st.sizeLimitReached
    /\ output' = st.output
    /\ frags' = st.frags

Init ==
    /\ \E inp \in Inputs :
         /\ heap = inp.heap
         /\ object = inp.root
         /\ stack = InitialState(inp.root).stack
         /\ seen = InitialState(inp.root).seen
         /\ size = InitialState(inp.root).size
         /\ sizeLimitReached = InitialState(inp.root).sizeLimitReached
         /\ output = InitialState(inp.root).output
         /\ frags = InitialState(inp.root).frags
    /\ maxDepth \in DepthLimits
    /\ maxSize \in SizeLimits
    /\ \E v \in {<<"index.js", "sync">>, <<"part_001", "sync">>, <<"part_001", "callback">>} :
         /\ impl = v[1]
         /\ mode = v[2]
    /\ batchSize \in (IF mode = "callback" THEN BatchSizes ELSE {BATCH_SIZE})
    /\ pc = (IF mode = "callback" THEN "slice" ELSE "loop")
    /\ i = 0
    /\ timers = 0
    /\ inCall = TRUE
    /\ delivered = <<>>
    /\ returned = <<>>
    /\ peer = NoPeer

\* while (stack.length) { iterateStack() }      (part_001 lines 173-175)
SyncIterate ==
    /\ pc = "loop"
    /\ impl = "part_001"
    /\ stack # <<>>
    /\ \E st \in {iterateStack(Env, Cur)} : SetClosure(st)
    /\ UNCHANGED <<params, peer, pc, i, timers, inCall, delivered, returned>>

\* while (stack.length) { ... }                 (index.js lines 49-89)
IndexIterate ==
    /\ pc = "loop"
    /\ impl = "index.js"
    /\ stack # <<>>
    /\ \E st \in {index_loopBody(Env, Cur)} :
          /\ SetClosure(st)
          /\ pc' = (IF st.threw THEN "threw" ELSE "loop")
          /\ inCall' = (inCall /\ ~st.threw)
    /\ UNCHANGED <<params, peer, i, timers, delivered, returned>>

\* return output, the loop being over           (part_001 line 178, index.js line 91)
SyncReturn ==
    /\ pc = "loop"
    /\ stack = <<>>
    /\ returned' = <<output>>
    /\ inCall' = FALSE
    /\ pc' = "done"
    /\ UNCHANGED <<params, peer, closure, i, timers, delivered>>

\* callbackStack: while (stack.length && i < BATCH_SIZE) { iterateStack(); i++ }
CallbackIterate ==
    /\ pc = "slice"
    /\ stack # <<>> /\ i < batchSize
    /\ \E st \in {iterateStack(Env, Cur)} : SetClosure(st)
    /\ i' = i + 1
    /\ UNCHANGED <<params, peer, pc, timers, inCall, delivered, returned>>

\* callbackStack: if (stack.length) setTimeout(callbackStack)
CallbackYield ==
    /\ pc = "slice"
    /\ ~(stack # <<>> /\ i < batchSize)
    /\ stack # <<>>
    /\ timers' = timers + 1
    /\ pc' = (IF inCall THEN "return" ELSE "idle")
    /\ UNCHANGED <<params, peer, closure, i, inCall, delivered, returned>>

\* A slice that calls the callback whenever it ends, the stack empty or not.
CallbackComplete_AtSliceEnd ==
    /\ pc = "slice"
    /\ ~(stack # <<>> /\ i < batchSize)
    /\ delivered' = Append(delivered, output)
    /\ pc' = (IF inCall THEN "return" ELSE "idle")
    /\ UNCHANGED <<params, peer, closure, i, timers, inCall, returned>>

\* callbackStack: else { callback(output); return undefined }
CallbackComplete ==
    /\ pc = "slice"
    /\ ~(stack # <<>> /\ i < batchSize)
    /\ stack = <<>>
    /\ delivered' = Append(delivered, output)
    /\ pc' = (IF inCall THEN "return" ELSE "idle")
    /\ UNCHANGED <<params, peer, closure, i, timers, inCall, returned>>

\* return output, after the first callbackStack()   (part_001 line 178)
CallbackReturn ==
    /\ pc = "return"
    /\ returned' = <<output>>
    /\ inCall' = FALSE
    /\ pc' = "idle"
    /\ UNCHANGED <<params, peer, closure, i, timers, delivered>>

\* A slice that starts with a fresh budget instead of the call's.
TimerFire_FreshBudget ==
    /\ pc = "idle"
    /\ timers > 0
    /\ timers' = timers - 1
    /\ i' = 0
    /\ pc' = "slice"
    /\ size' = SizeNum(0)
    /\ sizeLimitReached' = FALSE
    /\ UNCHANGED <<params, peer, stack, seen, output, frags, inCall, delivered, returned>>

\* The host runs a scheduled callbackStack: let i = 0
TimerFire ==
    /\ pc = "idle"
    /\ timers > 0
    /\ timers' = timers - 1
    /\ i' = 0
    /\ pc' = "slice"
    /\ UNCHANGED <<params, peer, closure, inCall, delivered, returned>>

Next ==
    \/ SyncIterate
    \/ IndexIterate
    \/ SyncReturn
    \/ CallbackIterate
    \/ CallbackYield
    \/ CallbackComplete
    \/ CallbackReturn
    \/ TimerFire

Spec == Init /\ [][Next]_vars

\* The loop runs to completion (nothing preempts the single thread) and the
\* host runs every scheduled slice.
FairSpec == Spec /\ WF_vars(Next)

(***************************************************************************)
(* escape, on its own: synchronous calls of part_001 with both limits      *)
(* infinite whose input is a string, or a mapping with one string under    *)
(* the key k, the string drawn from every string of at most MaxStringLen   *)
(* characters among the characters ESCAPE_REGEXP matches (the control      *)
(* characters, the quote, the backslash), the single quote and a letter.   *)
(***************************************************************************)
MaxStringLen == 2
EscapeAlphabet == (0..31) \cup {34, 39, 92, 97}
EscapeStrings == UNION {[1..n -> EscapeAlphabet] : n \in 0..MaxStringLen}
EscapeInputs ==
    {[root |-> Str(s), heap |-> <<>>] : s \in EscapeStrings}
    \cup {[root |-> Ref(1),
           heap |-> <<[k |-> "object", keys |-> <<(<<107>>)>>, vals |-> <<Str(s)>>]>>] :
          s \in EscapeStrings}

EscapeInit ==
    /\ \E inp \in EscapeInputs :
         /\ heap = inp.heap
         /\ object = inp.root
         /\ stack = InitialState(inp.root).stack
         /\ seen = InitialState(inp.root).seen
         /\ size = InitialState(inp.root).size
         /\ sizeLimitReached = InitialState(inp.root).sizeLimitReached
         /\ output = InitialState(inp.root).output
         /\ frags = InitialState(inp.root).frags
    /\ maxDepth = Infinity
    /\ maxSize = Infinity
    /\ impl = "part_001"
    /\ mode = "sync"
    /\ batchSize = BATCH_SIZE
    /\ pc = "loop"
    /\ i = 0
    /\ timers = 0
    /\ inCall = TRUE
    /\ delivered = <<>>
    /\ returned = <<>>
    /\ peer = NoPeer

EscapeNext == SyncIterate \/ SyncReturn

EscapeSpec == EscapeInit /\ [][EscapeNext]_vars

(***************************************************************************)
(* Two calls in callback mode in flight at once.  The first is the call of *)
(* the variables above; the second, `peer`, is started by the code that    *)
(* runs after the first has returned, on an object of the same heap.  Each *)
(* call of smartSerialize creates its own seen, size, sizeLimitReached,    *)
(* output and stack (part_001 lines 16-19, 61, 106).  The thread runs one  *)
(* callbackStack to its end before anything else: a step of one call is    *)
(* taken only while the other runs no code.  Pending timers fire in any    *)
(* order.                                                                  *)
(***************************************************************************)
PairInputs ==
    {In_arrays, In_nestedObject, In_circular, In_sharedInArray, In_sharedInObject,
     In_selfArrayAfterNumber}
PairDepthLimits == {Fin(1), Infinity}
PairSizeLimits == {Fin(12), Infinity}
PairBatchSizes == {1, 2}

\* A WeakSet shared by the calls.
seenOfCall_Shared(own, other) == own \cup other

\* The `seen` a call reads: the WeakSet created by that call (line 16).
seenOfCall(own, other) == own

PeerEnv == [heap |-> heap, maxDepth |-> peer.maxDepth, maxSize |-> peer.maxSize]

\* The first call runs no code: it has yielded or is over.
Quiet == pc = "idle"
\* The second call runs no code: it has not started, has yielded or is over.
PeerQuiet == peer.pc \in {"unstarted", "idle"}

PairInit ==
    /\ \E inp \in PairInputs :
         /\ heap = inp.heap
         /\ object = inp.root
         /\ stack = InitialState(inp.root).stack
         /\ seen = InitialState(inp.root).seen
         /\ size = InitialState(inp.root).size
         /\ sizeLimitReached = InitialState(inp.root).sizeLimitReached
         /\ output = InitialState(inp.root).output
         /\ frags = InitialState(inp.root).frags
    /\ maxDepth \in PairDepthLimits
    /\ maxSize \in PairSizeLimits
    /\ impl = "part_001"
    /\ mode = "callback"
    /\ batchSize \in PairBatchSizes
    /\ pc = "slice"
    /\ i = 0
    /\ timers = 0
    /\ inCall = TRUE
    /\ delivered = <<>>
    /\ returned = <<>>
    /\ \E id \in 1..Len(heap), d \in PairDepthLimits, z \in PairSizeLimits, b \in PairBatchSizes :
         peer = [object |-> Ref(id), maxDepth |-> d, maxSize |-> z, batchSize |-> b,
                 st |-> InitialState(Ref(id)),
                 pc |-> "unstarted", i |-> 0, timers |-> 0, inCall |-> FALSE,
                 delivered |-> <<>>, returned |-> <<>>]

PairIterate == PeerQuiet /\ CallbackIterate
PairYield == PeerQuiet /\ CallbackYield
PairComplete == PeerQuiet /\ CallbackComplete
PairReturn == PeerQuiet /\ CallbackReturn
PairTimerFire == PeerQuiet /\ TimerFire

\* smartSerialize(object, maxDepth, maxSize, callback), the second call
PeerStart ==
    /\ Quiet
    /\ peer.pc = "unstarted"
    /\ peer' = [peer EXCEPT !.pc = "slice", !.i = 0, !.inCall = TRUE]
    /\ UNCHANGED <<params, closure, pc, i, timers, inCall, delivered, returned>>

\* callbackStack of the second call: while (stack.length && i < BATCH_SIZE) { iterateStack(); i++ }
PeerIterate ==
    /\ Quiet
    /\ peer.pc = "slice"
    /\ peer.st.stack # <<>> /\ peer.i < peer.batchSize
    /\ \E st \in {iterateStack(PeerEnv, [peer.st EXCEPT !.seen = seenOfCall(@, seen)])} :
          peer' = [peer EXCEPT !.st = st, !.i = @ + 1]
    /\ UNCHANGED <<params, closure, pc, i, timers, inCall, delivered, returned>>

\* if (stack.length) setTimeout(callbackStack)
PeerYield ==
    /\ Quiet
    /\ peer.pc = "slice"
    /\ ~(peer.st.stack # <<>> /\ peer.i < peer.batchSize)
    /\ peer.st.stack # <<>>
    /\ peer' = [peer EXCEPT !.timers = @ + 1,
                            !.pc = (IF peer.inCall THEN "return" ELSE "idle")]
    /\ UNCHANGED <<params, closure, pc, i, timers, inCall, delivered, returned>>

\* else { callback(output); return undefined }
PeerComplete ==
    /\ Quiet
    /\ peer.pc = "slice"
    /\ ~(peer.st.stack # <<>> /\ peer.i < peer.batchSize)
    /\ peer.st.stack = <<>>
    /\ peer' = [peer EXCEPT !.delivered = Append(@, peer.st.output),
                            !.pc = (IF peer.inCall THEN "return" ELSE "idle")]
    /\ UNCHANGED <<params, closure, pc, i, timers, inCall, delivered, returned>>

\* return output
PeerReturn ==
    /\ Quiet
    /\ peer.pc = "return"
    /\ peer' = [peer EXCEPT !.returned = <<peer.st.output>>, !.inCall = FALSE, !.pc = "idle"]
    /\ UNCHANGED <<params, closure, pc, i, timers, inCall, delivered, returned>>

\* The host runs a scheduled callbackStack of the second call.
PeerTimerFire ==
    /\ Quiet
    /\ peer.pc = "idle"
    /\ peer.timers > 0
    /\ peer' = [peer EXCEPT !.timers = @ - 1, !.i = 0, !.pc = "slice"]
    /\ UNCHANGED <<params, closure, pc, i, timers, inCall, delivered, returned>>

PairNext ==
    \/ PairIterate
    \/ PairYield
    \/ PairComplete
    \/ PairReturn
    \/ PairTimerFire
    \/ PeerStart
    \/ PeerIterate
    \/ PeerYield
    \/ PeerComplete
    \/ PeerReturn
    \/ PeerTimerFire

PairSpec == PairInit /\ [][PairNext]_vars

(***************************************************************************)
(* What the claims speak of, besides the program: the shape of an input,   *)
(* a standard JSON parser (RFC 8259, integers only: the inputs hold no     *)
(* other numbers) and structural equality.                                 *)
(***************************************************************************)
IsContainer(h, v) == v.t = "ref" /\ h[v.id].k \in {"array", "object"}

Children(o) == IF o.k = "array" THEN o.elems ELSE IF o.k = "object" THEN o.vals ELSE <<>>

\* Every occurrence of a heap object below v, in document order; an
\* occurrence inside itself is listed and not entered again.
RECURSIVE Occurrences(_, _, _)
RECURSIVE OccurrencesIn(_, _, _, _)
OccurrencesIn(h, vs, k, path) ==
    IF k > Len(vs) THEN <<>>
    ELSE Occurrences(h, vs[k], path) \o OccurrencesIn(h, vs, k + 1, path)

Occurrences(h, v, path) ==
    IF v.t # "ref" THEN <<>>
    ELSE IF v.id \in path THEN <<v.id>>
    ELSE <<v.id>> \o OccurrencesIn(h, Children(h[v.id]), 1, path \cup {v.id})

\* No heap object is referenced twice (so the graph is a tree: no sharing, no cycle).
NoRepeatedReference(h, v) ==
    LET occ == Occurrences(h, v, {})
    IN \A a, b \in 1..Len(occ) : a # b => occ[a] # occ[b]

\* The graph has a cycle.
RECURSIVE HasCycle(_, _, _)
HasCycle(h, v, path) ==
    /\ v.t = "ref"
    /\ \/ v.id \in path
       \/ \E k \in 1..Len(Children(h[v.id])) :
            HasCycle(h, Children(h[v.id])[k], path \cup {v.id})

\* Only null, booleans, numbers, strings, sequences and mappings.
OnlyJsonValues(h, v) ==
    /\ v.t \in {"null", "bool", "num", "str", "ref"}
    /\ \A id \in 1..Len(h) :
         /\ h[id].k \in {"array", "object"}
         /\ \A k \in 1..Len(Children(h[id])) :
              Children(h[id])[k].t \in {"null", "bool", "num", "str", "ref"}

\* The input as a tree (for inputs without a cycle).
RECURSIVE TreeOf(_, _)
TreeOf(h, v) ==
    IF v.t # "ref" THEN v
    ELSE LET o == h[v.id]
         IN IF o.k = "array"
            THEN [t |-> "array", elems |-> [k \in 1..Len(o.elems) |-> TreeOf(h, o.elems[k])]]
            ELSE [t |-> "object", keys |-> o.keys,
                  vals |-> [k \in 1..Len(o.vals) |-> TreeOf(h, o.vals[k])]]

\* The value of the last member named key (a later duplicate replaces an earlier one).
LastIndexOf(keys, key) ==
    CHOOSE k \in 1..Len(keys) : keys[k] = key /\ \A m \in (k + 1)..Len(keys) : keys[m] # key

RECURSIVE StructurallyEqual(_, _)
StructurallyEqual(a, b) ==
    IF a.t # b.t THEN FALSE
    ELSE IF a.t = "array" THEN
        /\ Len(a.elems) = Len(b.elems)
        /\ \A k \in 1..Len(a.elems) : StructurallyEqual(a.elems[k], b.elems[k])
    ELSE IF a.t = "object" THEN
        /\ {a.keys[k] : k \in 1..Len(a.keys)} = {b.keys[k] : k \in 1..Len(b.keys)}
        /\ \A k \in 1..Len(a.keys) :
             StructurallyEqual(a.vals[LastIndexOf(a.keys, a.keys[k])],
                               b.vals[LastIndexOf(b.keys, a.keys[k])])
    ELSE a = b

ParseFail == [ok |-> FALSE, v |-> Null, p |-> 0]
ParseOk(v, p) == [ok |-> TRUE, v |-> v, p |-> p]

At(s, p) == IF p <= Len(s) THEN s[p] ELSE -1

IsWs(ch) == ch \in {32, 9, 10, 13}
IsDigit(ch) == ch \in 48..57
IsHex(ch) == ch \in (48..57) \cup (65..70) \cup (97..102)
HexValue(ch) == IF ch <= 57 THEN ch - 48 ELSE IF ch <= 70 THEN ch - 55 ELSE ch - 87

RECURSIVE SkipWs(_, _)
SkipWs(s, p) == IF IsWs(At(s, p)) THEN SkipWs(s, p + 1) ELSE p

StartsWith(s, p, lit) ==
    /\ p + Len(lit) - 1 <= Len(s)
    /\ SubSeq(s, p, p + Len(lit) - 1) = lit

\* The digits from p on: [n, p].
RECURSIVE ParseDigits(_, _, _)
ParseDigits(s, p, n) ==
    IF IsDigit(At(s, p)) THEN ParseDigits(s, p + 1, 10 * n + (s[p] - 48)) ELSE [n |-> n, p |-> p]

\* number = [ "-" ] ( "0" / digit1-9 *digit ), with no fraction and no exponent.
ParseNumber(s, p) ==
    LET neg == At(s, p) = 45
        q == IF neg THEN p + 1 ELSE p
        d == ParseDigits(s, q, 0)
    IN IF ~IsDigit(At(s, q)) THEN ParseFail
       ELSE IF s[q] = 48 /\ IsDigit(At(s, q + 1)) THEN ParseFail
       ELSE IF At(s, d.p) \in {46, 69, 101} THEN ParseFail
       ELSE ParseOk(Num(IF neg THEN 0 - d.n ELSE d.n), d.p)

\* The characters of a string from p on (after the opening quote), to the closing quote.
RECURSIVE ParseChars(_, _, _)
ParseChars(s, p, acc) ==
    LET ch == At(s, p)
        e == At(s, p + 1)
    IN IF ch = -1 \/ ch < 32 THEN ParseFail
       ELSE IF ch = 34 THEN ParseOk(Str(acc), p + 1)
       ELSE IF ch # 92 THEN ParseChars(s, p + 1, Append(acc, ch))
       ELSE CASE e = 34 -> ParseChars(s, p + 2, Append(acc, 34))
              [] e = 92 -> ParseChars(s, p + 2, Append(acc, 92))
              [] e = 47 -> ParseChars(s, p + 2, Append(acc, 47))
              [] e = 98 -> ParseChars(s, p + 2, Append(acc, 8))
              [] e = 102 -> ParseChars(s, p + 2, Append(acc, 12))
              [] e = 110 -> ParseChars(s, p + 2, Append(acc, 10))
              [] e = 114 -> ParseChars(s, p + 2, Append(acc, 13))
              [] e = 116 -> ParseChars(s, p + 2, Append(acc, 9))
              [] e = 117 ->
                    IF \A k \in 2..5 : IsHex(At(s, p + k))
                    THEN ParseChars(s, p + 6,
                             Append(acc, 4096 * HexValue(s[p + 2]) + 256 * HexValue(s[p + 3])
                                         + 16 * HexValue(s[p + 4]) + HexValue(s[p + 5])))
                    ELSE ParseFail
              [] OTHER -> ParseFail

ParseString(s, p) == IF At(s, p) = 34 THEN ParseChars(s, p + 1, <<>>) ELSE ParseFail

RECURSIVE ParseValue(_, _)
RECURSIVE ParseElements(_, _, _)
RECURSIVE ParseMembers(_, _, _, _)

\* After an element: "," and the next element, or "]".
ParseElements(s, p, acc) ==
    LET r == ParseValue(s, SkipWs(s, p))
        q == SkipWs(s, r.p)
    IN IF ~r.ok THEN ParseFail
       ELSE IF At(s, q) = 44 THEN ParseElements(s, q + 1, Append(acc, r.v))
       ELSE IF At(s, q) = 93 THEN ParseOk([t |-> "array", elems |-> Append(acc, r.v)], q + 1)
       ELSE ParseFail

\* A member (string ":" value), then "," and the next member, or "}".
ParseMembers(s, p, keys, vals) ==
    LET k == ParseString(s, SkipWs(s, p))
        colon == SkipWs(s, k.p)
        r == ParseValue(s, SkipWs(s, colon + 1))
        q == SkipWs(s, r.p)
    IN IF ~k.ok \/ At(s, colon) # 58 THEN ParseFail
       ELSE IF ~r.ok THEN ParseFail
       ELSE IF At(s, q) = 44 THEN ParseMembers(s, q + 1, Append(keys, k.v.s), Append(vals, r.v))
       ELSE IF At(s, q) = 125
            THEN ParseOk([t |-> "object", keys |-> Append(keys, k.v.s), vals |-> Append(vals, r.v)],
                         q + 1)
       ELSE ParseFail

ParseValue(s, p) ==
    LET ch == At(s, p)
    IN CASE ch = 110 -> IF StartsWith(s, p, NullText) THEN ParseOk(Null, p + 4) ELSE ParseFail
         [] ch = 116 -> IF StartsWith(s, p, TrueText) THEN ParseOk(Bool(TRUE), p + 4) ELSE ParseFail
         [] ch = 102 -> IF StartsWith(s, p, FalseText) THEN ParseOk(Bool(FALSE), p + 5) ELSE ParseFail
         [] ch = 34 -> ParseString(s, p)
         [] ch = 91 ->
               IF At(s, SkipWs(s, p + 1)) = 93
               THEN ParseOk([t |-> "array", elems |-> <<>>], SkipWs(s, p + 1) + 1)
               ELSE ParseElements(s, p + 1, <<>>)
         [] ch = 123 ->
               IF At(s, SkipWs(s, p + 1)) = 125
               THEN ParseOk([t |-> "object", keys |-> <<>>, vals |-> <<>>], SkipWs(s, p + 1) + 1)
               ELSE ParseMembers(s, p + 1, <<>>, <<>>)
         [] ch = 45 \/ IsDigit(ch) -> ParseNumber(s, p)
         [] OTHER -> ParseFail

\* JSON.parse(text): the value, when all of the text is one JSON value.
JsonParse(text) ==
    LET r == ParseValue(text, SkipWs(text, 1))
    IN IF r.ok /\ SkipWs(text, r.p) = Len(text) + 1 THEN r ELSE ParseFail

(***************************************************************************)
(* Claims.                                                                 *)
(***************************************************************************)
Unlimited == maxDepth = Infinity /\ maxSize = Infinity
Top == stack[Len(stack)]
Rest == SubSeq(stack, 1, Len(stack) - 1)
\* A step of the loop: it pops the top frame (every other action leaves the stack alone).
PopStep == stack # <<>> /\ stack' # stack
CountOf(frames, marker) == Cardinality({k \in 1..Len(frames) : frames[k].value = marker})
IsInput(inp) == heap = inp.heap /\ object = inp.root

NoEscapeNeededIn(str) == \A k \in 1..Len(str) : ~(str[k] \in 0..31 \/ str[k] = 34 \/ str[k] = 92)

\* No string and no key of the input holds a character that escaping changes.
NoEscapeNeeded(h, v) ==
    /\ v.t = "str" => NoEscapeNeededIn(v.s)
    /\ \A id \in 1..Len(h) :
         /\ h[id].k = "object" => \A k \in 1..Len(h[id].keys) : NoEscapeNeededIn(h[id].keys[k])
         /\ \A k \in 1..Len(Children(h[id])) :
              Children(h[id])[k].t = "str" => NoEscapeNeededIn(Children(h[id])[k].s)

\* The text of a leaf as render writes it.
LeafText(h, v) ==
    IF v.t = "str" THEN <<34>> \o escape(v.s) \o <<34>>
    ELSE ToStringJS([heap |-> h], v, {})

\* Serialization by descent in document order (first child first), with the
\* unlimited budgets and every other rule of part_001: the first occurrence
\* of a container in document order is expanded, a later one is the token.
RECURSIVE DocumentOrder(_, _, _, _, _)
RECURSIVE DocumentOrderChildren(_, _, _, _, _)
DocumentOrderChildren(h, o, k, visited, acc) ==
    IF k > Len(Children(o)) THEN [text |-> acc, seen |-> visited]
    ELSE Let(DocumentOrder(h, Children(o)[k],
                           IF o.k = "object" THEN Str(o.keys[k]) ELSE Null,
                           Num(k - 1), visited),
             LAMBDA r : DocumentOrderChildren(h, o, k + 1, r.seen, acc \o r.text))

DocumentOrder(h, v, key, index, visited) ==
    IF v.t # "ref" THEN [text |-> KeyPrefix(index, key) \o LeafText(h, v), seen |-> visited]
    ELSE IF v.id \in visited
    THEN [text |-> KeyPrefix(index, key) \o <<34>> \o CircularText \o <<34>>, seen |-> visited]
    ELSE IF h[v.id].k = "object" /\ Len(h[v.id].keys) = 0
    THEN [text |-> <<>>, seen |-> visited \cup {v.id}]
    ELSE Let(DocumentOrderChildren(h, h[v.id], 1, visited \cup {v.id}, <<>>),
             LAMBDA r : [text |-> KeyPrefix(index, key)
                                  \o (IF h[v.id].k = "array" THEN <<91>> ELSE <<123>>)
                                  \o r.text
                                  \o (IF h[v.id].k = "array" THEN <<93>> ELSE <<125>>),
                         seen |-> r.seen])

\* The states the synchronous loop of part_001 goes through, in order.
RECURSIVE SyncStates(_, _)
SyncStates(c, st) ==
    IF st.stack = <<>> THEN <<st>> ELSE <<st>> \o SyncStates(c, iterateStack(c, st))

SyncOutput == runStack(Env, InitialState(object)).output

\* C1: for every input and every maxDepth and maxSize, the synchronous loop
\* reaches the empty stack after finitely many steps and the call returns
\* its output.
C1_SyncLoopReachesDoneAndReturns ==
    (mode = "sync") => <>(pc = "done" /\ stack = <<>> /\ returned = <<output>>)

\* C2: in part_001 the open and the close markers are pushed together, so
\* at every step the open-array markers on the stack and in the output are
\* as many as the close-array markers on the stack and in the output, and
\* the same for the object markers; with the stack empty, the output is
\* balanced, also when children were not pushed.
C2_Balanced ==
    (impl = "part_001") =>
        /\ CountOf(stack, LEFT_BRACKET) + CountOf(frags, LEFT_BRACKET)
             = CountOf(stack, RIGHT_BRACKET) + CountOf(frags, RIGHT_BRACKET)
        /\ CountOf(stack, LEFT_BRACE) + CountOf(frags, LEFT_BRACE)
             = CountOf(stack, RIGHT_BRACE) + CountOf(frags, RIGHT_BRACE)
        /\ (stack = <<>>) =>
             /\ CountOf(frags, LEFT_BRACKET) = CountOf(frags, RIGHT_BRACKET)
             /\ CountOf(frags, LEFT_BRACE) = CountOf(frags, RIGHT_BRACE)

\* { foo: 1, bar: 'baz' } finished as {"foo":1}: bar was not pushed, the
\* braces are both there.
C2_Witness ==
    /\ impl = "part_001" /\ pc = "done"
    /\ IsInput(In_simpleObject)
    /\ sizeLimitReached
    /\ Len(frags) = 3
    /\ frags[1].value = LEFT_BRACE /\ frags[3].value = RIGHT_BRACE

\* C3: for an input without a repeated reference, made of null, booleans,
\* numbers, strings, sequences and mappings, the text returned with both
\* limits infinite is accepted by a JSON parser and parses to a value
\* structurally equal to the input.
C3_RoundTrip ==
    (/\ impl = "part_001" /\ pc = "done" /\ Unlimited
     /\ OnlyJsonValues(heap, object)
     /\ NoRepeatedReference(heap, object))
    => /\ JsonParse(returned[1]).ok
       /\ StructurallyEqual(JsonParse(returned[1]).v, TreeOf(heap, object))

\* C4: whenever the popped frame holds a container that is in `seen`, for
\* every maxDepth and maxSize the step renders the quoted token
\* "[circular reference]" with the frame's key and comma, adds 20 to size
\* and pushes nothing.
C4_SeenContainerRendersToken ==
    [][(PopStep /\ IsContainer(heap, Top.value) /\ Top.value.id \in seen)
       => LET text == KeyPrefix(Top.index, Top.key) \o <<34>> \o CircularText \o <<34>>
          IN /\ output' = text \o output
             /\ frags' = <<[key |-> Top.key, value |-> Str(CircularText),
                            index |-> Top.index, text |-> text]>> \o frags
             /\ size' = SizeNum(size.n + 20)
             /\ stack' = Rest
             /\ seen' = seen]_vars

\* C5: when one container is referenced from two places of an input without
\* a cycle (both limits infinite), the occurrence that is first in document
\* order is expanded and the later one is rendered as the token: the output
\* is that of the descent in document order.
C5_FirstOccurrenceExpanded ==
    (/\ impl = "part_001" /\ pc = "done" /\ Unlimited
     /\ OnlyJsonValues(heap, object)
     /\ ~HasCycle(heap, object, {})
     /\ ~NoRepeatedReference(heap, object))
    => returned[1] = DocumentOrder(heap, object, Null, Undefined, {}).text

\* C6: with the root at depth 0, a step that pops a sequence or a non-empty
\* mapping not yet in `seen` at depth >= maxDepth renders the one token []
\* or {} (after the frame's comma and key) and pushes nothing, whatever the
\* container holds; at depth < maxDepth, with the budget not exceeded once
\* the two units of the enclosure are charged, it renders nothing and
\* replaces the frame by the open marker, the children pushed (one level
\* deeper) and the close marker on top.  { foo: { bar: { baz: 'qux' } } }
\* with maxDepth 2 gives {"foo":{"bar":{}}}.
C6_CollapseAtMaxDepth ==
    [][/\ (/\ PopStep
           /\ Top.value.t = "ref" /\ Top.value.id \notin seen
           /\ \/ heap[Top.value.id].k = "array"
              \/ heap[Top.value.id].k = "object" /\ heap[Top.value.id].keys # <<>>)
          => LET isArray == heap[Top.value.id].k = "array"
                 open == IF impl = "part_001"
                         THEN (IF isArray THEN LEFT_BRACKET ELSE LEFT_BRACE)
                         ELSE (IF isArray THEN Str(<<91>>) ELSE Str(<<123>>))
                 close == IF impl = "part_001"
                          THEN (IF isArray THEN RIGHT_BRACKET ELSE RIGHT_BRACE)
                          ELSE (IF isArray THEN Str(<<93>>) ELSE Str(<<125>>))
                 n == Len(stack)
             IN /\ (~maxDepth.inf /\ Top.depth >= maxDepth.n)
                   => /\ stack' = Rest
                      /\ Len(frags') = Len(frags) + 1
                      /\ output' = KeyPrefix(Top.index, Top.key)
                                     \o (IF isArray THEN <<91, 93>> ELSE <<123, 125>>)
                                     \o output
                /\ (/\ maxDepth.inf \/ Top.depth < maxDepth.n
                    /\ ~sizeLimitReached
                    /\ ~SizeExceeds(SizePlusNumber(size, 2), maxSize))
                   => /\ output' = output /\ frags' = frags
                      /\ Len(stack') >= n + 1
                      /\ SubSeq(stack', 1, n - 1) = Rest
                      /\ stack'[n] = Frame(Top.key, open, Top.index, Top.depth)
                      /\ stack'[Len(stack')] = Frame(Undefined, close, Undefined, Top.depth)
                      /\ \A k \in (n + 1)..(Len(stack') - 1) : stack'[k].depth = Top.depth + 1
       /\ (/\ pc' = "done"
           /\ heap = In_nestedObject.heap /\ object = In_nestedObject.root
           /\ maxDepth = Fin(2) /\ maxSize = Infinity)
          => returned' = <<(<<123, 34, 102, 111, 111, 34, 58, 123, 34, 98, 97, 114, 34, 58,
                              123, 125, 125, 125>>)>>]_vars

\* { foo: { bar: { baz: 'qux' } } } with maxDepth 2 has returned: foo (depth
\* 1) was expanded and bar (depth 2) was rendered as {}.
C6_Witness ==
    /\ pc = "done"
    /\ IsInput(In_nestedObject)
    /\ maxDepth = Fin(2) /\ maxSize = Infinity
    /\ seen = {1, 2, 3}
    /\ Len(frags) = 5
    /\ frags[3].text = <<34, 98, 97, 114, 34, 58, 123, 125>>

\* C7: for an input whose root is a container and whose strings and keys
\* hold no character that needs escaping, for every maxDepth and every
\* maxSize >= 2, the returned output is at most maxSize long.
C7_OutputWithinMaxSize ==
    (/\ impl = "part_001" /\ pc = "done"
     /\ IsContainer(heap, object)
     /\ NoEscapeNeeded(heap, object)
     /\ ~maxSize.inf /\ maxSize.n >= 2)
    => Len(returned[1]) <= maxSize.n

\* C8: no call raises an error, for any input (null at the root, as an
\* element or under a key included) and any maxDepth and maxSize; { foo:
\* null } with both limits infinite returns {"foo":null}.
C8_NoErrorRaised ==
    /\ pc # "threw"
    /\ (pc = "done" /\ IsInput(In_nullValue) /\ Unlimited)
       => returned = <<(<<123, 34, 102, 111, 111, 34, 58, 110, 117, 108, 108, 125>>)>>

\* C9: in callback mode, for every input, maxDepth, maxSize and slice size,
\* the state of the call (stack, seen, size, sizeLimitReached, output) is
\* at every moment a state the synchronous loop goes through for the same
\* arguments, and the string given to the callback is the string the
\* synchronous loop ends with.
C9_CallbackOutputIsSyncOutput ==
    (mode = "callback") =>
        /\ Let(SyncStates(Env, InitialState(object)),
               LAMBDA tr : \E k \in 1..Len(tr) : tr[k] = Cur)
        /\ \A k \in 1..Len(delivered) : delivered[k] = SyncOutput

\* A call with slices of one frame whose budget tripped has delivered a
\* non-empty string, after several slices (the call itself had returned the
\* shorter string of the first slice).
C9_Witness ==
    /\ mode = "callback" /\ batchSize = 1
    /\ sizeLimitReached
    /\ pc = "idle" /\ timers = 0
    /\ Len(delivered) = 1 /\ delivered[1] # <<>>
    /\ returned # <<>> /\ returned[1] # delivered[1]

\* C10: in callback mode, when the host runs every scheduled slice, the
\* callback is eventually called; it is called at most once, so exactly
\* once; it is called only with the stack empty; and once it has been
\* called no slice is pending, running or scheduled.
C10_CallbackCalledOnceAtTheEnd ==
    /\ [](mode = "callback" => <>(Len(delivered) = 1))
    /\ [](Len(delivered) <= 1)
    /\ [][delivered' # delivered => stack = <<>> /\ stack' = <<>>]_vars
    /\ [](delivered # <<>> => timers = 0 /\ pc # "slice")
    /\ [][delivered # <<>> => timers' = timers /\ delivered' = delivered]_vars

\* A call with slices of one frame has called the callback, after the call
\* had returned, and nothing is pending.
C10_Witness ==
    /\ mode = "callback" /\ batchSize = 1
    /\ Len(delivered) = 1
    /\ ~inCall /\ pc = "idle" /\ timers = 0
    /\ stack = <<>>
    /\ Len(frags) >= 3

\* C11: when a callback is given, the call of smartSerialize returns no
\* value: what it returns is undefined, neither a part of the output nor the
\* whole of it.
C11_CallbackCallReturnsNothing ==
    (mode = "callback" /\ returned # <<>>) => returned[1] = Undefined

\* C12: when a callback is given, it is called only after the call of
\* smartSerialize has returned to its caller, for every input, those of
\* fewer frames than one slice included.
C12_CallbackAfterReturn ==
    /\ (delivered # <<>>) => (returned # <<>> /\ ~inCall)
    /\ (mode = "callback" /\ inCall) => delivered = <<>>

\* The escape of one character as the specification words it.
HexChar(d) == IF d < 10 THEN 48 + d ELSE 87 + d
SpecifiedEscape(ch) ==
    CASE ch = 8 -> <<92, 98>>
      [] ch = 9 -> <<92, 116>>
      [] ch = 10 -> <<92, 110>>
      [] ch = 12 -> <<92, 102>>
      [] ch = 13 -> <<92, 114>>
      [] ch = 34 -> <<92, 34>>
      [] ch = 92 -> <<92, 92>>
      [] ch \in 0..31 -> <<92, 117, 48, 48, HexChar(ch \div 16), HexChar(ch % 16)>>
      [] OTHER -> <<ch>>

RECURSIVE EscapedAsSpecified(_, _)
EscapedAsSpecified(s, k) ==
    IF k > Len(s) THEN <<>> ELSE SpecifiedEscape(s[k]) \o EscapedAsSpecified(s, k + 1)

\* From position p on, text holds no control character, and no quote and no
\* backslash other than in an escape.
RECURSIVE NoRawSpecial(_, _)
NoRawSpecial(text, p) ==
    IF p > Len(text) THEN TRUE
    ELSE IF text[p] = 92 THEN p + 1 <= Len(text) /\ NoRawSpecial(text, p + 2)
    ELSE text[p] \notin ((0..31) \cup {34}) /\ NoRawSpecial(text, p + 1)

\* C13: every string rendered by part_001 is, between its quotes, the input
\* with backspace, tab, line feed, form feed, carriage return, the quote and
\* the backslash replaced by their two-character escapes, every other
\* character of 0x00-0x1F replaced by \u00XX, and every other character
\* (the single quote included) unchanged; no raw quote, backslash or
\* control character is inside a rendered string.
C13_StringsEscaped ==
    (impl = "part_001") =>
        \A k \in 1..Len(frags) :
            (frags[k].value.t = "str") =>
                LET prefix == KeyPrefix(frags[k].index, frags[k].key)
                    inner == SubSeq(frags[k].text, Len(prefix) + 2, Len(frags[k].text) - 1)
                IN /\ frags[k].text = prefix \o <<34>>
                                       \o EscapedAsSpecified(frags[k].value.s, 1) \o <<34>>
                   /\ NoRawSpecial(inner, 1)

\* { k: '\f\'' } has returned {"k":"\f'"}: the form feed as its two-character
\* escape, the single quote as it was.
C13_Witness ==
    /\ pc = "done"
    /\ object = Ref(1)
    /\ heap[1].vals = <<Str(<<12, 39>>)>>
    /\ returned = <<(<<123, 34, 107, 34, 58, 34, 92, 102, 39, 34, 125>>)>>

\* '\u0001"' has returned "\u0001\"".
C13_WitnessUnicodeEscape ==
    /\ pc = "done"
    /\ object = Str(<<1, 34>>)
    /\ returned = <<(<<34, 92, 117, 48, 48, 48, 49, 92, 34, 34>>)>>

\* C14: only sequences and mappings are cycle-detected: `seen` never holds a
\* Date, an Error or a RegExp, and a step of part_001 that pops one of them
\* renders its own string form, quoted, whether or not the same instance
\* was popped before.
C14_OnlyContainersGuarded ==
    [][(impl = "part_001")
       => /\ \A id \in seen' : heap[id].k \in {"array", "object"}
          /\ (/\ PopStep
              /\ Top.value.t = "ref"
              /\ heap[Top.value.id].k \in {"date", "error", "regexp"})
             => LET o == heap[Top.value.id]
                    own == IF o.k = "date" THEN o.iso ELSE o.text
                IN output' = KeyPrefix(Top.index, Top.key)
                               \o <<34>> \o escape(own) \o <<34>> \o output]_vars

\* C15: in every state of a call of part_001, size is a non-negative
\* integer, no step decreases it, sizeLimitReached is true exactly when size
\* has exceeded maxSize (size never decreasing: when it exceeds it now), and
\* no step resets sizeLimitReached.
C15_BudgetMonotone ==
    /\ []((impl = "part_001")
          => /\ ~size.str /\ size.n >= 0
             /\ sizeLimitReached <=> (~maxSize.inf /\ size.n > maxSize.n))
    /\ [][(impl = "part_001")
          => /\ ~size'.str /\ size'.n >= size.n
             /\ sizeLimitReached => sizeLimitReached']_vars

\* The estimate measureSize is specified to add for one value.
EstimateOf(h, v) ==
    CASE v.t = "null" -> 4
      [] v.t = "bool" -> IF v.b THEN 4 ELSE 5
      [] v.t = "str" -> Len(v.s) + 2
      [] v.t = "num" -> Len(NumberToString(v.n))
      [] v.t = "fn" -> 13 + Len(v.name)
      [] v.t = "ref" /\ h[v.id].k = "date" -> 26
      [] v.t = "ref" /\ h[v.id].k \in {"error", "regexp"} -> Len(h[v.id].text)
      [] OTHER -> 0

RECURSIVE SumOfEstimates(_, _, _)
SumOfEstimates(h, vs, k) ==
    IF k > Len(vs) THEN 0 ELSE EstimateOf(h, vs[k]) + SumOfEstimates(h, vs, k + 1)

\* C17: the estimate of an Error or RegExp child is the length of its
\* string form: with both limits infinite, the step of part_001 that expands
\* an array leaves size a number, larger by 2 and by the estimates of its
\* elements; and the budget still trips on such a child: [/h/i, 'aaaa', [1]]
\* with maxSize 3 ends with sizeLimitReached set.
C17_ErrorAndPatternEstimate ==
    /\ [][(/\ impl = "part_001" /\ Unlimited
           /\ PopStep
           /\ Top.value.t = "ref" /\ Top.value.id \notin seen
           /\ heap[Top.value.id].k = "array")
          => /\ ~size'.str
             /\ size'.n = size.n + 2 + SumOfEstimates(heap, heap[Top.value.id].elems, 1)]_vars
    /\ []((/\ impl = "part_001" /\ pc = "done"
           /\ IsInput(In_regexpThenValues) /\ maxSize = Fin(3))
          => sizeLimitReached)

\* The frame of the k-th child of the container o popped at `depth`.
ChildFrame(o, k, depth) ==
    Frame(IF o.k = "object" THEN Str(o.keys[k]) ELSE Null, Children(o)[k], Num(k - 1), depth + 1)

MarkerText(value) ==
    CASE value = LEFT_BRACKET -> <<91>>
      [] value = RIGHT_BRACKET -> <<93>>
      [] value = LEFT_BRACE -> <<123>>
      [] value = RIGHT_BRACE -> <<125>>

IsSequenceOrNonEmptyMapping(h, v) ==
    /\ v.t = "ref"
    /\ \/ h[v.id].k = "array"
       \/ h[v.id].k = "object" /\ h[v.id].keys # <<>>

\* The step during which sizeLimitReached becomes true pushes, if anything,
\* the open marker, the children measured before the trip (the first j, not
\* all) and the close marker.  A step after it pushes nothing; if it pops a
\* sequence or a non-empty mapping it renders [] or {}, if it pops a marker
\* it renders the marker.
TruncationStep(anySeen) ==
    (impl = "part_001" /\ PopStep) =>
        /\ (~sizeLimitReached /\ sizeLimitReached')
           => \/ stack' = Rest
              \/ /\ IsSequenceOrNonEmptyMapping(heap, Top.value)
                 /\ LET o == heap[Top.value.id]
                        n == Len(stack)
                    IN \E j \in 0..(Len(Children(o)) - 1) :
                          /\ Len(stack') = n + j + 1
                          /\ SubSeq(stack', 1, n - 1) = Rest
                          /\ stack'[n].value \in {LEFT_BRACKET, LEFT_BRACE}
                          /\ \A k \in 1..j : stack'[n + k] = ChildFrame(o, k, Top.depth)
                          /\ stack'[n + j + 1].value \in {RIGHT_BRACKET, RIGHT_BRACE}
        /\ sizeLimitReached
           => /\ stack' = Rest
              /\ (IsSequenceOrNonEmptyMapping(heap, Top.value)
                  /\ (anySeen \/ Top.value.id \notin seen))
                 => output' = KeyPrefix(Top.index, Top.key)
                                \o (IF heap[Top.value.id].k = "array" THEN <<91, 93>>
                                    ELSE <<123, 125>>)
                                \o output
              /\ (Top.value \in {LEFT_BRACKET, RIGHT_BRACKET, LEFT_BRACE, RIGHT_BRACE})
                 => output' = KeyPrefix(Top.index, Top.key) \o MarkerText(Top.value) \o output

\* C16: from the step at which sizeLimitReached becomes true, no further
\* child frame is pushed (no remaining sibling, no descendant), every
\* sequence or non-empty mapping popped afterwards is rendered as [] or {},
\* and the markers already on the stack are still rendered, both of them.
C16_StickyTruncation ==
    /\ [][TruncationStep(TRUE)]_vars
    /\ [](impl = "part_001" /\ stack = <<>>
          => /\ CountOf(frags, LEFT_BRACKET) = CountOf(frags, RIGHT_BRACKET)
             /\ CountOf(frags, LEFT_BRACE) = CountOf(frags, RIGHT_BRACE))

TokenOf(h, value) ==
    CASE value \in {LEFT_BRACKET, RIGHT_BRACKET, LEFT_BRACE, RIGHT_BRACE} -> MarkerText(value)
      [] value = BRACKETS -> <<91, 93>>
      [] value = BRACES -> <<123, 125>>
      [] OTHER -> LeafText(h, value)

\* The prefix the claim gives a frame: a comma exactly when the sibling index
\* is set and not zero, then "<key>": exactly when the key is a string.
SpecifiedPrefix(f) ==
    (IF f.index.t = "num" /\ f.index.n # 0 THEN <<44>> ELSE <<>>)
    \o (IF f.key.t = "str" THEN <<34>> \o f.key.s \o <<34, 58>> ELSE <<>>)

\* A step of part_001 that renders writes the prefix of the popped frame and
\* the token; with both limits infinite, a step that expands a container
\* pushes, between the markers, one frame per child, under its key for a
\* mapping and under no key for an array.
PrefixStep(anyKey) ==
    (/\ impl = "part_001" /\ PopStep
     /\ anyKey \/ \A id \in 1..Len(heap) :
                     heap[id].k = "object" => \A k \in 1..Len(heap[id].keys) : heap[id].keys[k] # <<>>)
    => /\ (frags' # frags)
          => /\ Len(frags') = Len(frags) + 1
             /\ frags'[1].text = SpecifiedPrefix(Top) \o TokenOf(heap, frags'[1].value)
             /\ output' = frags'[1].text \o output
       /\ (Unlimited /\ IsSequenceOrNonEmptyMapping(heap, Top.value) /\ Top.value.id \notin seen)
          => LET o == heap[Top.value.id]
                 n == Len(stack)
             IN /\ Len(stack') = n + Len(Children(o)) + 1
                /\ stack'[n].key = Top.key /\ stack'[n].index = Top.index
                /\ \A k \in 1..Len(Children(o)) : stack'[n + k] = ChildFrame(o, k, Top.depth)
                /\ stack'[Len(stack')].key = Undefined /\ stack'[Len(stack')].index = Undefined

\* C19: every rendered child of a mapping is written with the prefix
\* "<key>": of its own key, for every string key; the root and the elements
\* of an array are written without a key prefix; a comma leads exactly the
\* frames whose sibling index is set and not zero.
C19_KeyPrefixAndComma ==
    /\ [](impl = "part_001" /\ pc \in {"loop", "slice"} /\ frags = <<>> /\ seen = {}
          => stack = <<Frame(Null, object, Undefined, 0)>>)
    /\ [][PrefixStep(TRUE)]_vars

RECURSIVE ConcatTexts(_, _)
ConcatTexts(fr, p) == IF p > Len(fr) THEN <<>> ELSE fr[p].text \o ConcatTexts(fr, p + 1)

\* The fragments fr, from position p on, read left to right, list under
\* every open container (levels: the containers open at p, innermost last,
\* each with the last sibling index met) children of that container only,
\* each under its own key, with ascending sibling indices, before the close
\* marker of that container.
RECURSIVE NaturalOrder(_, _, _, _, _)
NaturalOrder(h, root, fr, p, levels) ==
    IF p > Len(fr) THEN levels = <<>>
    ELSE LET f == fr[p]
             d == Len(levels)
         IN IF f.value \in {RIGHT_BRACKET, RIGHT_BRACE}
            THEN /\ d > 0
                 /\ (f.value = RIGHT_BRACKET) <=> (h[levels[d].id].k = "array")
                 /\ NaturalOrder(h, root, fr, p + 1, SubSeq(levels, 1, d - 1))
            ELSE /\ IF d = 0
                    THEN p = 1 /\ f.key = Null /\ f.index = Undefined
                    ELSE LET o == h[levels[d].id]
                         IN /\ f.index.t = "num"
                            /\ f.index.n > levels[d].last
                            /\ f.index.n < Len(Children(o))
                            /\ f.key = (IF o.k = "object" THEN Str(o.keys[f.index.n + 1]) ELSE Null)
                 /\ LET v == IF d = 0 THEN root ELSE Children(h[levels[d].id])[f.index.n + 1]
                        here == IF d = 0 THEN <<>>
                                ELSE [levels EXCEPT ![d] = [id |-> @.id, last |-> f.index.n]]
                    IN IF f.value \in {LEFT_BRACKET, LEFT_BRACE}
                       THEN /\ v.t = "ref"
                            /\ (f.value = LEFT_BRACKET) <=> (h[v.id].k = "array")
                            /\ NaturalOrder(h, root, fr, p + 1,
                                            Append(here, [id |-> v.id, last |-> -1]))
                       ELSE /\ (d = 0) => p = Len(fr)
                            /\ IF v.t = "ref" THEN f.value \in {BRACKETS, BRACES} \/ f.value.t = "str"
                               ELSE IF v.t = "fn" THEN f.value.t = "str"
                               ELSE f.value = v
                            /\ NaturalOrder(h, root, fr, p + 1, here)

\* C20: the output of part_001 is its fragments in the order of `frags`
\* (each one was prepended); when the stack is empty, the fragments list the
\* rendered children of every expanded container in natural order (index
\* ascending, keys in insertion order, each child under its own key)
\* between the markers of that container; with both limits infinite and no
\* repeated reference the output is that of the descent in document order.
C20_NaturalOrder ==
    (impl = "part_001") =>
        /\ output = ConcatTexts(frags, 1)
        /\ (stack = <<>>) => NaturalOrder(heap, object, frags, 1, <<>>)
        /\ (/\ pc = "done" /\ Unlimited
            /\ OnlyJsonValues(heap, object)
            /\ NoRepeatedReference(heap, object))
           => returned[1] = DocumentOrder(heap, object, Null, Undefined, {}).text

\* { foo: [1, 2], bar: ['a'] } has returned {"foo":[1,2],"bar":["a"]}.
C20_Witness ==
    /\ impl = "part_001" /\ pc = "done"
    /\ IsInput(In_arrays)
    /\ returned = <<(<<123, 34, 102, 111, 111, 34, 58, 91, 49, 44, 50, 93, 44, 34, 98, 97, 114,
                       34, 58, 91, 34, 97, 34, 93, 125>>)>>

\* C21: two calls in callback mode in flight at once, their slices
\* interleaved in any order, on objects of the same heap (the same object
\* included): each gives its callback the output it gives when it runs
\* alone; no step of one call changes the stack, seen, size,
\* sizeLimitReached or output of the other; and the two calls never both
\* run code, so that no call is left in the middle of a frame.
C21_TwoCallsIsolated ==
    /\ [](/\ \A k \in 1..Len(delivered) :
               delivered[k] = runStack(Env, InitialState(object)).output
          /\ \A k \in 1..Len(peer.delivered) :
               peer.delivered[k] = runStack(PeerEnv, InitialState(peer.object)).output
          /\ Len(delivered) <= 1 /\ Len(peer.delivered) <= 1
          /\ Quiet \/ PeerQuiet)
    /\ [][/\ (peer' # peer) => UNCHANGED closure
          /\ (closure' # closure) => peer' = peer
          /\ (peer.pc # "unstarted" /\ peer'.st # peer.st)
             => peer'.st = iterateStack(PeerEnv, peer.st)]_vars

\* Both calls, with slices of one frame, on the same object [s, s]: each
\* has yielded with a part of its output built and a timer pending.
C21_Witness ==
    /\ IsInput(In_sharedInArray)
    /\ peer.object = object
    /\ batchSize = 1 /\ peer.batchSize = 1
    /\ pc = "idle" /\ peer.pc = "idle"
    /\ timers = 1 /\ peer.timers = 1
    /\ Len(frags) >= 2 /\ Len(peer.st.frags) >= 2
    /\ seen = {1, 2} /\ peer.st.seen = {1, 2}

\* The values of the input h, root at nesting depth d (root: depth 0).
RECURSIVE AtDepth(_, _, _)
AtDepth(h, root, d) ==
    IF d = 0 THEN {root}
    ELSE UNION {{Children(h[v.id])[k] : k \in 1..Len(Children(h[v.id]))} :
                  v \in {w \in AtDepth(h, root, d - 1) : IsContainer(h, w)}}

DepthWithin(d) == 0 <= d /\ (maxDepth.inf \/ d <= maxDepth.n)
OpenMarkerOf(o) ==
    IF impl = "part_001" THEN (IF o.k = "array" THEN LEFT_BRACKET ELSE LEFT_BRACE)
    ELSE (IF o.k = "array" THEN Str(<<91>>) ELSE Str(<<123>>))
CloseMarkerOf(o) ==
    IF impl = "part_001" THEN (IF o.k = "array" THEN RIGHT_BRACKET ELSE RIGHT_BRACE)
    ELSE (IF o.k = "array" THEN Str(<<93>>) ELSE Str(<<125>>))
IsMarkerValue(value) ==
    IF impl = "part_001" THEN value \in {LEFT_BRACKET, RIGHT_BRACKET, LEFT_BRACE, RIGHT_BRACE}
    ELSE value \in {Str(<<91>>), Str(<<93>>), Str(<<123>>), Str(<<125>>)}

\* C22: with maxDepth >= 0, every frame on the stack has
\* 0 <= depth <= maxDepth and, unless it is a marker, holds a value that
\* sits at that nesting depth in the input; a step that pushes frames pops
\* a container and pushes its open marker at the container's depth, child
\* frames at that depth plus one and its close marker at the container's
\* depth; so a step that renders pops a frame of depth at most maxDepth.
C22_DepthWithinMaxDepth ==
    /\ []((maxDepth.inf \/ maxDepth.n >= 0)
          => \A k \in 1..Len(stack) :
                /\ DepthWithin(stack[k].depth)
                /\ IsMarkerValue(stack[k].value)
                   \/ stack[k].value \in AtDepth(heap, object, stack[k].depth))
    /\ [][(PopStep /\ Len(stack') >= Len(stack))
          => LET n == Len(stack)
                 m == Len(stack')
                 o == heap[Top.value.id]
             IN /\ IsContainer(heap, Top.value)
                /\ m >= n + 1
                /\ SubSeq(stack', 1, n - 1) = Rest
                /\ stack'[n].value = OpenMarkerOf(o) /\ stack'[n].depth = Top.depth
                /\ stack'[m].value = CloseMarkerOf(o) /\ stack'[m].depth = Top.depth
                /\ \A k \in (n + 1)..(m - 1) :
                      /\ stack'[k].depth = Top.depth + 1
                      /\ stack'[k].value = Children(o)[k - n]]_vars
    /\ [][(PopStep /\ output' # output) => DepthWithin(Top.depth)]_vars

\* { foo: { bar: { baz: 'qux' } } } with maxDepth 1: the close marker of the
\* outer mapping is rendered, and the mapping { bar: ... } is on top of the
\* stack at depth 1, above the open marker of the outer one at depth 0.
C22_Witness ==
    /\ IsInput(In_nestedObject)
    /\ maxDepth = Fin(1)
    /\ Len(stack) = 2
    /\ IsContainer(heap, Top.value) /\ Top.depth = 1
    /\ stack[1].depth = 0 /\ IsMarkerValue(stack[1].value)
    /\ output # <<>>

\* The objects of the input h reached from root, root included.
ReachableIds(h, root) ==
    {v.id : v \in {w \in UNION {AtDepth(h, root, d) : d \in 0..Len(h)} : w.t = "ref"}}
ContainerIds(h, root) == {id \in ReachableIds(h, root) : h[id].k \in {"array", "object"}}

\* Child count plus 2, summed over the containers `ids`.
RECURSIVE FrameBudget(_, _)
FrameBudget(h, ids) ==
    IF ids = {} THEN 0
    ELSE LET id == CHOOSE x \in ids : TRUE
         IN (Len(Children(h[id])) + 2) + FrameBudget(h, ids \ {id})

\* One step of the loop of the implementation in use.
LoopStep(c, st) == IF impl = "part_001" THEN iterateStack(c, st) ELSE index_loopBody(c, st)

\* The frames pushed by the next `fuel` steps of the loop from st, and
\* whether the loop has ended by then.
RECURSIVE PushedFrom(_, _, _)
PushedFrom(c, st, fuel) ==
    IF st.stack = <<>> \/ st.threw THEN [pushed |-> 0, ended |-> TRUE]
    ELSE IF fuel = 0 THEN [pushed |-> 0, ended |-> FALSE]
    ELSE Let(LoopStep(c, st), LAMBDA s1 :
         Let(PushedFrom(c, s1, fuel - 1), LAMBDA r :
             [pushed |-> r.pushed + (Len(s1.stack) - (Len(st.stack) - 1)),
              ended |-> r.ended]))

\* C23: seen only grows; a step pushes frames only when it pops a
\* container that is not yet in seen, and that container is in seen after
\* the step, so that no container is expanded twice; and in every state the
\* frames still to be pushed are at most the sum, over the containers of the
\* input not yet in seen, of their child count plus 2 (in the initial state:
\* 1 frame pushed, and at most the sum over all containers to come), the
\* loop ending within that many steps plus the frames on the stack.
C23_ExpandedAtMostOnce ==
    /\ [][seen \subseteq seen']_vars
    /\ [][(PopStep /\ Len(stack') >= Len(stack))
          => /\ IsContainer(heap, Top.value)
             /\ Top.value.id \notin seen
             /\ Top.value.id \in seen']_vars
    /\ [](LET budget == FrameBudget(heap, ContainerIds(heap, object) \ seen)
              r == PushedFrom(Env, Cur, budget + Len(stack))
          IN /\ r.ended
             /\ r.pushed <= budget
             /\ (stack = InitialState(object).stack /\ seen = {})
                => 1 + r.pushed <= 1 + FrameBudget(heap, ContainerIds(heap, object)))

\* s = [1]; [s, s] without limits: the loop has ended, both arrays are in
\* seen, the second reference to s was popped (and rendered as the token)
\* after s was expanded, and the frames pushed after the first are 4 + 3.
C23_Witness ==
    /\ IsInput(In_sharedInArray)
    /\ Unlimited
    /\ stack = <<>>
    /\ seen = {1, 2}
    /\ Len(frags) >= 2
    /\ PushedFrom(Env, InitialState(object), 7).pushed = FrameBudget(heap, {1, 2})

\* The containers collapsed to [] or {} by the steps of the call of
\* part_001 from st up to the state `target`: popped when not in seen and
\* rendered without a frame pushed.
RECURSIVE CollapsedUpTo(_, _, _, _)
CollapsedUpTo(c, st, target, acc) ==
    IF st = target \/ st.stack = <<>> THEN acc
    ELSE LET f == st.stack[Len(st.stack)]
         IN Let(iterateStack(c, st), LAMBDA s1 :
                CollapsedUpTo(c, s1, target,
                    IF /\ IsSequenceOrNonEmptyMapping(c.heap, f.value)
                       /\ f.value.id \notin st.seen
                       /\ Len(s1.stack) = Len(st.stack) - 1
                    THEN acc \cup {f.value.id} ELSE acc))

Collapsed == CollapsedUpTo(Env, InitialState(object), Cur, {})

\* A popped container not yet in seen is in seen after the step, collapsed or not.
EnteredOnFirstPop ==
    (impl = "part_001" /\ PopStep /\ Top.value.t = "ref" /\ Top.value.id \notin seen)
    => seen' = seen \cup {Top.value.id}

\* A popped reference to a collapsed container pushes nothing.
CollapsedNeverExpanded ==
    (impl = "part_001" /\ PopStep /\ Top.value.t = "ref" /\ Top.value.id \in Collapsed)
    => stack' = Rest /\ Top.value.id \in seen

\* A popped reference to a collapsed container renders the token.
CollapsedRendersToken ==
    (impl = "part_001" /\ PopStep /\ Top.value.t = "ref" /\ Top.value.id \in Collapsed)
    => output' = KeyPrefix(Top.index, Top.key) \o <<34>> \o CircularText \o <<34>> \o output

\* C24: a container is added to seen by the step that pops it first, also
\* when that step collapses it to [] or {} (depth at maxDepth, or budget
\* exceeded); a later step that pops another reference to a collapsed
\* container pushes nothing and renders the token "[circular reference]"
\* with the frame's comma and key.
C24_CollapsedInstanceStaysGuarded ==
    [][EnteredOnFirstPop /\ CollapsedNeverExpanded /\ CollapsedRendersToken]_vars

====
